---- MODULE Spec2Model ----
(***************************************************************************)
(* Model of src/app.js: an Express facade in front of the Azure Computer   *)
(* Vision client.  Seven POST /api/vision/* routes share the middleware    *)
(* checkImageUrl and the error handler processError; GET / returns service *)
(* metadata.                                                               *)
(*                                                                         *)
(* Strings the code parses (imageUrl) are sequences of one-character       *)
(* strings.  JSON objects are records; a JSON array the code never looks   *)
(* into is a record [arr |-> token].                                       *)
(***************************************************************************)
EXTENDS Integers, Sequences, FiniteSets, TLC

\* ------------------------------------------------------------------ bounds
\* Number of POST requests one behaviour handles (ids are arrival order).
MaxReq == 2
\* Longest imageUrl string enumerated by the single-request specification.
MaxUrlLen == 5

\* Characters imageUrl strings are built from: two letters (so that the
\* special schemes "ws" and "wss" and non-special ones such as "w" occur),
\* the scheme/port delimiter, the slash, and the space (stripped at the
\* ends, a forbidden host code point inside).
Chars == {"w", "s", ":", "/", " "}

RECURSIVE StrUpTo(_)
StrUpTo(n) ==
    IF n = 0 THEN {<<>>}
    ELSE LET shorter == StrUpTo(n - 1)
         IN shorter \cup {Append(s, c) : s \in {t \in shorter : Len(t) = n - 1}, c \in Chars}

\* ------------------------------------------------------------------- state
VARIABLES
    env,       \* process.env.API_BASE_URL, fixed at process start
    pc,        \* per request id: "idle" (not received), "awaiting", "done"
    req,       \* per request id: the path and body it was received with
    io,        \* everything the process did, in order: remote calls issued,
               \* calls settled, console.error lines, responses sent
    rootOut    \* the response to the latest GET /, if any

vars == <<env, pc, req, io, rootOut>>

\* ------------------------------------------------- new URL(imageUrl)
\* The WHATWG basic URL parser run by `new URL(input)` with no base URL,
\* restricted to inputs over Chars (no '@', '?', '#', '\', '[', digits, '%').
Alpha == {"w", "s"}
SpecialSchemes == {<<"w", "s">>, <<"w", "s", "s">>}

RECURSIVE StripLeading(_)
StripLeading(s) ==
    IF s # <<>> /\ Head(s) = " " THEN StripLeading(Tail(s)) ELSE s

RECURSIVE StripTrailing(_)
StripTrailing(s) ==
    IF s # <<>> /\ s[Len(s)] = " " THEN StripTrailing(SubSeq(s, 1, Len(s) - 1)) ELSE s

\* Index of the first occurrence of a character of cs in s, Len(s)+1 if none.
RECURSIVE IndexOf(_, _, _)
IndexOf(s, cs, i) ==
    IF i > Len(s) THEN Len(s) + 1
    ELSE IF s[i] \in cs THEN i
    ELSE IndexOf(s, cs, i + 1)

RECURSIVE SkipSlashes(_)
SkipSlashes(s) ==
    IF s # <<>> /\ Head(s) = "/" THEN SkipSlashes(Tail(s)) ELSE s

Failure == [failure |-> TRUE, scheme |-> <<>>, hostNull |-> TRUE, host |-> <<>>]
Parsed(scheme, hostNull, host) ==
    [failure |-> FALSE, scheme |-> scheme, hostNull |-> hostNull, host |-> host]

\* host parser: a forbidden host code point (here the space) is a failure, for
\* a domain and for an opaque host alike.
HostParse(buffer) ==
    IF \E i \in 1..Len(buffer) : buffer[i] = " " THEN Failure
    ELSE Parsed(<<>>, FALSE, buffer)

\* authority state, host state and port state on the input that follows the
\* slashes.
AuthorityParse(scheme, rest, special) ==
    LET authEnd == IndexOf(rest, {"/"}, 1)
        auth    == SubSeq(rest, 1, authEnd - 1)
        colon   == IndexOf(auth, {":"}, 1)
        hostBuf == SubSeq(auth, 1, colon - 1)
        port    == SubSeq(auth, colon + 1, Len(auth))
        h       == HostParse(hostBuf)
    IN IF colon <= Len(auth)
       THEN \* host state at ':' : empty buffer is host-missing; then port state
            IF hostBuf = <<>> THEN Failure
            ELSE IF h.failure THEN Failure
            ELSE IF port # <<>> THEN Failure      \* no digit in Chars: port-invalid
            ELSE Parsed(scheme, FALSE, hostBuf)
       ELSE \* host state at end of authority
            IF special /\ hostBuf = <<>> THEN Failure
            ELSE IF h.failure THEN Failure
            ELSE Parsed(scheme, FALSE, hostBuf)

URLParse(input) ==
    LET s     == StripTrailing(StripLeading(input))
        colon == IndexOf(s, {":", "/", " "}, 1)
    IN \* scheme start state / scheme state / no scheme state
       IF s = <<>> \/ s[1] \notin Alpha THEN Failure
       ELSE IF colon > Len(s) \/ s[colon] # ":" THEN Failure
       ELSE LET scheme == SubSeq(s, 1, colon - 1)
                rest   == SubSeq(s, colon + 1, Len(s))
            IN IF scheme \in SpecialSchemes
               THEN \* special authority (ignore) slashes state
                    AuthorityParse(scheme, SkipSlashes(rest), TRUE)
               ELSE IF rest # <<>> /\ rest[1] = "/"
               THEN \* path or authority state
                    IF Len(rest) >= 2 /\ rest[2] = "/"
                    THEN AuthorityParse(scheme, SubSeq(rest, 3, Len(rest)), FALSE)
                    ELSE Parsed(scheme, TRUE, <<>>)
               ELSE \* opaque path state
                    Parsed(scheme, TRUE, <<>>)

\* --------------------------------------------------------- collaborator
\* What visionProcessor's operations can resolve with or reject with.  The
\* client is constructed once (app.js:11) and only read afterwards.
TagsA == [arr |-> "tagsA"]
TagsB == [arr |-> "tagsB"]
FacesA == [arr |-> "facesA"]
FacesB == [arr |-> "facesB"]
ColorA == [dominantColorForeground |-> "Black"]
ColorB == [dominantColorForeground |-> "White"]

AnalysisA == [requestId |-> "a1", tags |-> TagsA, faces |-> FacesA, color |-> ColorA]
AnalysisB == [requestId |-> "a2", tags |-> TagsB, faces |-> FacesB, color |-> ColorB]
DetectedA == [requestId |-> "o1", objects |-> [arr |-> "objsA"]]
DetectedB == [requestId |-> "o2", objects |-> [arr |-> "objsB"]]
DescribedA == [requestId |-> "d1", captions |-> [arr |-> "capsA"]]
DescribedB == [requestId |-> "d2", captions |-> [arr |-> "capsB"]]
OcrA == [language |-> "en", regions |-> [arr |-> "regsA"]]
OcrB == [language |-> "fr", regions |-> [arr |-> "regsB"]]

\* the operations of the client the handlers use
Ops == {"analyzeImage", "detectObjects", "describeImage", "recognizePrintedText"}

Results(op) ==
    CASE op = "analyzeImage"         -> {AnalysisA, AnalysisB}
      [] op = "detectObjects"        -> {DetectedA, DetectedB}
      [] op = "describeImage"        -> {DescribedA, DescribedB}
      [] op = "recognizePrintedText" -> {OcrA, OcrB}

\* Rejection values: an error with a message, an error whose message is the
\* empty string, and a rejection value that has no message property.  The
\* client rejects with error objects; a rejection with null or undefined, on
\* which processError itself would throw, is not among them.
Errors == { [name |-> "RestError", message |-> "Access denied"],
            [name |-> "Error", message |-> ""],
            [name |-> "Timeout"] }

Outcomes(op) == {[ok |-> TRUE, value |-> v] : v \in Results(op)}
                \cup {[ok |-> FALSE, value |-> e] : e \in Errors}

\* The outcomes the concurrent specification draws from: per operation one
\* result and one rejection.
SampleOutcomes(op) ==
    {o \in Outcomes(op) :
        IF o.ok THEN o.value \in {AnalysisA, DetectedA, DescribedA, OcrA}
        ELSE "message" \in DOMAIN o.value /\ o.value.message # ""}

\* ---------------------------------------------------------- request bodies
\* req.body after express.json(): imageUrl absent, or a string (the type the
\* route documentation gives it; other JSON values are not modelled).
NoImageUrl == [has |-> FALSE, imageUrl |-> <<>>]
Body(s) == [has |-> TRUE, imageUrl |-> s]

AllBodies == {NoImageUrl} \cup {Body(s) : s \in StrUpTo(MaxUrlLen)}
\* The bodies the concurrent specification draws from.
SampleBodies == { NoImageUrl,
                  Body(<<"w", "s", ":">>),          \* special scheme, no host
                  Body(<<"w", "s", ":", "w">>) }    \* special scheme and host

\* -------------------------------------------------------------- I/O events
CallEv(id, call)  == [ev |-> "call", id |-> id, data |-> call]
SettleEv(id, out) == [ev |-> "settle", id |-> id, data |-> out]
LogEv(id, err)    == [ev |-> "log", id |-> id, data |-> err]
ResEv(id, status, body) ==
    [ev |-> "res", id |-> id, data |-> [status |-> status, body |-> body]]

\* --------------------------------------------------------------- middleware
\* checkImageUrl without the `return` of its first branch: a missing imageUrl
\* is answered and then still handed to `new URL`, which throws.
checkImageUrlNoReturn(id, body) ==
    IF ~body.has \/ body.imageUrl = <<>>
    THEN [next |-> FALSE, out |-> <<ResEv(id, 400, [error |-> "Image URL is required"]),
                                    ResEv(id, 400, [error |-> "Invalid URL format"])>>]
    ELSE IF URLParse(body.imageUrl).failure
    THEN [next |-> FALSE, out |-> <<ResEv(id, 400, [error |-> "Invalid URL format"])>>]
    ELSE [next |-> TRUE, out |-> <<>>]

\* checkImageUrl with next() after the try/catch instead of inside the try.
checkImageUrlNextAlways(id, body) ==
    IF ~body.has \/ body.imageUrl = <<>>
    THEN [next |-> FALSE, out |-> <<ResEv(id, 400, [error |-> "Image URL is required"])>>]
    ELSE IF URLParse(body.imageUrl).failure
    THEN [next |-> TRUE, out |-> <<ResEv(id, 400, [error |-> "Invalid URL format"])>>]
    ELSE [next |-> TRUE, out |-> <<>>]

\* checkImageUrl answering a malformed imageUrl with 422.
checkImageUrl422(id, body) ==
    IF ~body.has \/ body.imageUrl = <<>>
    THEN [next |-> FALSE, out |-> <<ResEv(id, 400, [error |-> "Image URL is required"])>>]
    ELSE IF URLParse(body.imageUrl).failure
    THEN [next |-> FALSE, out |-> <<ResEv(id, 422, [error |-> "Invalid URL format"])>>]
    ELSE [next |-> TRUE, out |-> <<>>]

\* checkImageUrl: `!imageUrl` is true for undefined and for ''.
checkImageUrl(id, body) ==
    IF ~body.has \/ body.imageUrl = <<>>
    THEN [next |-> FALSE, out |-> <<ResEv(id, 400, [error |-> "Image URL is required"])>>]
    ELSE IF URLParse(body.imageUrl).failure
    THEN [next |-> FALSE, out |-> <<ResEv(id, 400, [error |-> "Invalid URL format"])>>]
    ELSE [next |-> TRUE, out |-> <<>>]

\* err.message with no fallback: a missing message serialises to no field
\* value at all.
ErrorTextNoFallback(err) ==
    IF "message" \in DOMAIN err THEN err.message ELSE "undefined"

\* err.message || 'An error occurred during image analysis'
ErrorText(err) ==
    IF "message" \in DOMAIN err /\ err.message # ""
    THEN err.message
    ELSE "An error occurred during image analysis"

\* processError answering before it logs.
processErrorLogLast(id, err) ==
    <<ResEv(id, 500, [error |-> ErrorText(err)]), LogEv(id, err)>>

\* processError: console.error, then res.status(500).json
processError(id, err) ==
    <<LogEv(id, err), ResEv(id, 500, [error |-> ErrorText(err)])>>

\* ------------------------------------------------------------------ routes
Analyze  == <<"api", "vision", "analyze">>
Tags     == <<"api", "vision", "tags">>
Objects  == <<"api", "vision", "objects">>
Describe == <<"api", "vision", "describe">>
Text     == <<"api", "vision", "text">>
Faces    == <<"api", "vision", "faces">>
Colors   == <<"api", "vision", "colors">>

\* paths registered with app.post
PostRoutes == {Analyze, Tags, Objects, Describe, Text, Faces, Colors}

AnalyzeCall(url, features, details) ==
    [op |-> "analyzeImage", url |-> url, visualFeatures |-> features, details |-> details]

\* the handlers with /objects copied from /tags: composite analysis
\* restricted to the feature Objects.
RemoteCallObjectsByAnalyze(path, url) ==
    CASE path = Analyze  -> AnalyzeCall(url, {"ImageType", "Faces", "Adult", "Categories",
                                              "Color", "Tags", "Description", "Objects",
                                              "Brands"}, {"Landmarks"})
      [] path = Tags     -> AnalyzeCall(url, {"Tags"}, {})
      [] path = Objects  -> AnalyzeCall(url, {"Objects"}, {})
      [] path = Describe -> [op |-> "describeImage", url |-> url]
      [] path = Text     -> [op |-> "recognizePrintedText", url |-> url,
                             detectOrientation |-> FALSE]
      [] path = Faces    -> AnalyzeCall(url, {"Faces"}, {})
      [] path = Colors   -> AnalyzeCall(url, {"Color"}, {})

\* the remote call each handler awaits
RemoteCall(path, url) ==
    CASE path = Analyze  -> AnalyzeCall(url, {"ImageType", "Faces", "Adult", "Categories",
                                              "Color", "Tags", "Description", "Objects",
                                              "Brands"}, {"Landmarks"})
      [] path = Tags     -> AnalyzeCall(url, {"Tags"}, {})
      [] path = Objects  -> [op |-> "detectObjects", url |-> url]
      [] path = Describe -> [op |-> "describeImage", url |-> url]
      [] path = Text     -> [op |-> "recognizePrintedText", url |-> url,
                             detectOrientation |-> FALSE]
      [] path = Faces    -> AnalyzeCall(url, {"Faces"}, {})
      [] path = Colors   -> AnalyzeCall(url, {"Color"}, {})

\* the handlers with /faces copied from /tags and the projection left as is.
ShapeFacesAsTags(path, analysis) ==
    CASE path = Tags   -> analysis.tags
      [] path = Faces  -> analysis.tags
      [] path = Colors -> analysis.color
      [] OTHER         -> analysis

\* the argument each handler gives res.json on success
Shape(path, analysis) ==
    CASE path = Tags   -> analysis.tags
      [] path = Faces  -> analysis.faces
      [] path = Colors -> analysis.color
      [] OTHER         -> analysis

\* a continuation whose catch block answers and then falls through to a
\* second res.json.
ResumeTwice(id, path, outcome) ==
    IF outcome.ok
    THEN <<ResEv(id, 200, Shape(path, outcome.value))>>
    ELSE processError(id, outcome.value) \o <<ResEv(id, 200, [none |-> TRUE])>>

\* a continuation that keeps the first failure in a module-level variable and
\* answers every later request with it.
ResumeAfterFailure(id, path, outcome) ==
    LET failures == SelectSeq(io, LAMBDA e : e.ev = "settle" /\ ~e.data.ok)
    IN IF failures # <<>> THEN processError(id, failures[1].data.value)
       ELSE IF outcome.ok THEN <<ResEv(id, 200, Shape(path, outcome.value))>>
       ELSE processError(id, outcome.value)

\* the handler's continuation once the awaited call has settled
Resume(id, path, outcome) ==
    IF outcome.ok
    THEN <<ResEv(id, 200, Shape(path, outcome.value))>>
    ELSE processError(id, outcome.value)

\* GET / : the metadata document
DocsBase(penv) ==
    IF penv.set /\ penv.value # "" THEN penv.value ELSE "http://157.230.209.216:5000/"

\* the endpoint list with the colors entry copied from faces.
RootEndpointsCopied ==
    [analyze |-> Analyze, tags |-> Tags, objects |-> Objects, describe |-> Describe,
     text |-> Text, faces |-> Faces, colors |-> Faces]

RootEndpoints ==
    [analyze |-> Analyze, tags |-> Tags, objects |-> Objects, describe |-> Describe,
     text |-> Text, faces |-> Faces, colors |-> Colors]

RootHandler(penv) ==
    [status |-> 200,
     body |-> [message |-> "Welcome to Azure AI Image Analysis API",
               documentation |-> <<DocsBase(penv), "/api-docs">>,
               note |-> "All endpoints need to be tested using Postman.",
               endpoints |-> RootEndpoints]]

\* ------------------------------------------------------------- behaviour
Ids == 1..MaxReq
Envs == { [set |-> FALSE, value |-> ""],
          [set |-> TRUE, value |-> "https://vision.example.com"] }
NoReq == [path |-> <<>>, body |-> NoImageUrl]

Init ==
    /\ env \in Envs
    /\ pc = [i \in Ids |-> "idle"]
    /\ req = [i \in Ids |-> NoReq]
    /\ io = <<>>
    /\ rootOut = <<>>

\* A POST arrives: checkImageUrl runs and, if it calls next(), the handler
\* runs up to its await, all in one turn of the event loop.
Post(id, bodies) ==
    /\ pc[id] = "idle"
    /\ \A j \in Ids : j < id => pc[j] # "idle"
    /\ \E path \in PostRoutes, body \in bodies :
          LET chk == checkImageUrl(id, body)
          IN /\ req' = [req EXCEPT ![id] = [path |-> path, body |-> body]]
             /\ IF chk.next
                THEN /\ io' = io \o chk.out \o <<CallEv(id, RemoteCall(path, body.imageUrl))>>
                     /\ pc' = [pc EXCEPT ![id] = "awaiting"]
                ELSE /\ io' = io \o chk.out
                     /\ pc' = [pc EXCEPT ![id] = "done"]
    /\ UNCHANGED <<env, rootOut>>

\* The awaited call of a request resolves or rejects; the handler resumes.
Settle(id, outcomes) ==
    /\ pc[id] = "awaiting"
    /\ \E outcome \in outcomes[RemoteCall(req[id].path, req[id].body.imageUrl).op] :
          io' = Append(io, SettleEv(id, outcome)) \o Resume(id, req[id].path, outcome)
    /\ pc' = [pc EXCEPT ![id] = "done"]
    /\ UNCHANGED <<env, req, rootOut>>

GetRoot ==
    /\ rootOut' = <<RootHandler(env)>>
    /\ UNCHANGED <<env, pc, req, io>>

PostSample == \E id \in Ids : Post(id, SampleBodies)
SettleAny == \E id \in Ids : Settle(id, [op \in Ops |-> SampleOutcomes(op)])

Next == PostSample \/ SettleAny \/ GetRoot

Spec == Init /\ [][Next]_vars

\* One request at a time, imageUrl ranging over every string up to MaxUrlLen.
PostOne == Post(1, AllBodies)
SettleOne == Settle(1, [op \in Ops |-> Outcomes(op)])
NextOne == PostOne \/ SettleOne \/ GetRoot

SpecOne == Init /\ [][NextOne]_vars

\* ------------------------------------------------------ reading the trace
EventsOf(id, kind) == SelectSeq(io, LAMBDA e : e.ev = kind /\ e.id = id)
CallsOf(id)     == EventsOf(id, "call")
SettlesOf(id)   == EventsOf(id, "settle")
LogsOf(id)      == EventsOf(id, "log")
ResponsesOf(id) == EventsOf(id, "res")

Received(id) == pc[id] # "idle"
UrlOf(id)    == req[id].body.imageUrl
\* imageUrl is absent or ''
IsMissing(id) == ~req[id].body.has \/ UrlOf(id) = <<>>
\* imageUrl is a non-empty string that `new URL` does not accept
IsMalformed(id) == ~IsMissing(id) /\ URLParse(UrlOf(id)).failure
\* imageUrl parses to a URL with a scheme and a non-empty host
HasSchemeAndHost(id) ==
    LET u == URLParse(UrlOf(id))
    IN ~IsMissing(id) /\ ~u.failure /\ u.scheme # <<>> /\ ~u.hostNull /\ u.host # <<>>

\* the request got exactly one response, with this status
AnsweredWith(id, status) ==
    /\ Len(ResponsesOf(id)) = 1
    /\ ResponsesOf(id)[1].data.status = status
ResponseBody(id) == ResponsesOf(id)[1].data.body

\* the request's remote call has settled with a result / with a failure
Succeeded(id) == Len(SettlesOf(id)) = 1 /\ SettlesOf(id)[1].data.ok
Failed(id)    == Len(SettlesOf(id)) = 1 /\ ~SettlesOf(id)[1].data.ok
Settled(id)   == SettlesOf(id)[1].data.value

\* ================================================================== claims

\* C1: on every POST endpoint, a request whose body has no imageUrl or has
\* imageUrl = '' is answered with HTTP 400 and a JSON body with an `error`
\* field, and no remote operation is invoked for it.
C1_MissingImageUrlRejected ==
    \A id \in Ids :
        (Received(id) /\ IsMissing(id)) =>
            /\ pc[id] = "done"
            /\ AnsweredWith(id, 400)
            /\ "error" \in DOMAIN ResponseBody(id)
            /\ CallsOf(id) = <<>>
            /\ SettlesOf(id) = <<>>

C1_Witness ==
    /\ pc[1] = "done"
    /\ req[1].path = Describe
    /\ req[1].body = Body(<<>>)
    /\ AnsweredWith(1, 400)

\* C2 as stated: a remote operation is invoked only when imageUrl has both a
\* scheme and a host, and every non-empty imageUrl lacking either is
\* answered with HTTP 400 without reaching the collaborator.
C2_OnlySchemeAndHostReachCollaborator ==
    \A id \in Ids :
        Received(id) =>
            /\ (CallsOf(id) # <<>> => HasSchemeAndHost(id))
            /\ (~IsMissing(id) /\ ~HasSchemeAndHost(id)) =>
                   (AnsweredWith(id, 400) /\ CallsOf(id) = <<>>)

\* C2 as amended: a remote operation is invoked only when `new URL` accepts
\* imageUrl, which demands a scheme, and a non-empty host only when the
\* scheme is a special one; every non-empty imageUrl that `new URL` rejects
\* is answered with HTTP 400 without reaching the collaborator; a string
\* with a non-special scheme and no host is accepted and reaches it.
C2_OnlyParsableUrlsReachCollaborator ==
    \A id \in Ids :
        Received(id) =>
            LET u == URLParse(UrlOf(id))
            IN /\ CallsOf(id) # <<>> =>
                     /\ ~IsMissing(id)
                     /\ ~u.failure
                     /\ u.scheme # <<>>
                     /\ u.scheme[1] \in Alpha
                     /\ u.scheme \in SpecialSchemes => (~u.hostNull /\ u.host # <<>>)
                     /\ CallsOf(id)[1].data.url = UrlOf(id)
               /\ IsMalformed(id) =>
                     /\ pc[id] = "done"
                     /\ AnsweredWith(id, 400)
                     /\ CallsOf(id) = <<>>
               /\ (~IsMissing(id) /\ ~u.failure) => Len(CallsOf(id)) = 1

C2_Witness ==
    /\ pc[1] = "awaiting"
    /\ UrlOf(1) = <<"w", ":", "s">>
    /\ URLParse(UrlOf(1)).hostNull
    /\ Len(CallsOf(1)) = 1

\* C3: when the remote call of a request with a valid imageUrl fails, the
\* endpoint answers HTTP 500 with the body {error: m}, m being the failure's
\* message if it has a non-empty one and the generic fallback text otherwise.
C3_FailureBecomes500 ==
    \A id \in Ids :
        Failed(id) =>
            LET e == Settled(id)
                m == IF "message" \in DOMAIN e
                     THEN (IF e.message = "" THEN "An error occurred during image analysis"
                           ELSE e.message)
                     ELSE "An error occurred during image analysis"
            IN /\ pc[id] = "done"
               /\ AnsweredWith(id, 500)
               /\ ResponseBody(id) = [error |-> m]

C3_Witness ==
    /\ Failed(1)
    /\ req[1].path = Text
    /\ "message" \notin DOMAIN Settled(1)
    /\ AnsweredWith(1, 500)

\* C4: when the composite-analysis call succeeds with R, tags answers 200
\* with exactly R.tags, faces with exactly R.faces, colors with exactly
\* R.color.
C4_SubFieldOnly ==
    \A id \in Ids :
        (Succeeded(id) /\ req[id].path \in {Tags, Faces, Colors}) =>
            /\ AnsweredWith(id, 200)
            /\ req[id].path = Tags   => ResponseBody(id) = Settled(id).tags
            /\ req[id].path = Faces  => ResponseBody(id) = Settled(id).faces
            /\ req[id].path = Colors => ResponseBody(id) = Settled(id).color

C4_Witness ==
    /\ Succeeded(1)
    /\ req[1].path = Faces
    /\ Settled(1) = AnalysisB
    /\ AnsweredWith(1, 200)
    /\ ResponseBody(1) = FacesB

\* C5: objects, describe and text each invoke their own dedicated remote
\* operation on the request's imageUrl and, when it succeeds with R, answer
\* 200 with R whole.
DedicatedOp(path) ==
    CASE path = Objects  -> "detectObjects"
      [] path = Describe -> "describeImage"
      [] path = Text     -> "recognizePrintedText"

C5_DedicatedOperationPassedThrough ==
    \A id \in Ids :
        (req[id].path \in {Objects, Describe, Text} /\ CallsOf(id) # <<>>) =>
            /\ Len(CallsOf(id)) = 1
            /\ CallsOf(id)[1].data.op = DedicatedOp(req[id].path)
            /\ CallsOf(id)[1].data.url = UrlOf(id)
            /\ Succeeded(id) =>
                  /\ AnsweredWith(id, 200)
                  /\ ResponseBody(id) = Settled(id)

C5_Witness ==
    /\ Succeeded(1)
    /\ req[1].path = Text
    /\ CallsOf(1)[1].data.op = "recognizePrintedText"
    /\ ResponseBody(1) = OcrB

\* C6 as stated: on one endpoint, a request rejected for a missing or empty
\* imageUrl and a request rejected for a malformed one receive the same
\* response (status and body).
C6_RejectionsIndistinguishable ==
    \A i, j \in Ids :
        ( /\ pc[i] = "done" /\ pc[j] = "done"
          /\ req[i].path = req[j].path
          /\ IsMissing(i) /\ IsMalformed(j) ) =>
            ResponsesOf(i)[1].data = ResponsesOf(j)[1].data

\* C6 as amended: the two rejections share the status 400 and the body shape
\* {error: <message>}, and differ in the message: 'Image URL is required'
\* for a missing or empty imageUrl, 'Invalid URL format' for a malformed one.
C6_RejectionsShareStatusAndShape ==
    \A i, j \in Ids :
        ( /\ pc[i] = "done" /\ pc[j] = "done"
          /\ req[i].path = req[j].path
          /\ IsMissing(i) /\ IsMalformed(j) ) =>
            /\ AnsweredWith(i, 400) /\ AnsweredWith(j, 400)
            /\ DOMAIN ResponseBody(i) = {"error"}
            /\ DOMAIN ResponseBody(j) = {"error"}
            /\ ResponseBody(i).error = "Image URL is required"
            /\ ResponseBody(j).error = "Invalid URL format"

C6_Witness ==
    /\ pc[1] = "done" /\ pc[2] = "done"
    /\ req[1].path = Colors /\ req[2].path = Colors
    /\ IsMissing(1) /\ IsMalformed(2)
    /\ AnsweredWith(1, 400) /\ AnsweredWith(2, 400)

\* C7: GET / answers 200 with a body whose keys are exactly message,
\* documentation, note and endpoints; endpoints has exactly the seven keys
\* analyze, tags, objects, describe, text, faces, colors, each mapped to the
\* path of the POST route of that name; whatever API_BASE_URL is and whatever
\* requests came before.
C7_RootMetadata ==
    rootOut # <<>> =>
        LET r == rootOut[1]
        IN /\ Len(rootOut) = 1
           /\ r.status = 200
           /\ DOMAIN r.body = {"message", "documentation", "note", "endpoints"}
           /\ DOMAIN r.body.endpoints =
                 {"analyze", "tags", "objects", "describe", "text", "faces", "colors"}
           /\ \A n \in DOMAIN r.body.endpoints :
                 /\ r.body.endpoints[n] \in PostRoutes
                 /\ r.body.endpoints[n] = <<"api", "vision", n>>

C7_Witness ==
    /\ rootOut # <<>>
    /\ ~env.set
    /\ \E id \in Ids : Failed(id) /\ AnsweredWith(id, 500)
    /\ \E id \in Ids : IsMalformed(id) /\ AnsweredWith(id, 400)

\* position in the trace of the only event of this kind of a request
PosOf(id, kind) == CHOOSE k \in 1..Len(io) : io[k].ev = kind /\ io[k].id = id

\* C8: a request that passes validation issues exactly one remote call, never
\* a second one; its response is sent only after that call has settled; and
\* exactly one response is sent per request: none while the call is pending,
\* one as soon as it has settled (or validation has rejected), never two.
C8_OneCallOneResponse ==
    \A id \in Ids :
        /\ pc[id] = "idle" =>
              CallsOf(id) = <<>> /\ SettlesOf(id) = <<>> /\ ResponsesOf(id) = <<>>
        /\ pc[id] = "awaiting" =>
              /\ Len(CallsOf(id)) = 1
              /\ SettlesOf(id) = <<>>
              /\ ResponsesOf(id) = <<>>
        /\ pc[id] = "done" =>
              /\ Len(ResponsesOf(id)) = 1
              /\ Len(CallsOf(id)) = Len(SettlesOf(id))
              /\ Len(CallsOf(id)) <= 1
              /\ Len(CallsOf(id)) = 1 =>
                    /\ PosOf(id, "call") < PosOf(id, "settle")
                    /\ PosOf(id, "settle") < PosOf(id, "res")
                    /\ ResponsesOf(id)[1].data.status =
                          (IF SettlesOf(id)[1].data.ok THEN 200 ELSE 500)
              /\ Len(CallsOf(id)) = 0 => ResponsesOf(id)[1].data.status = 400

C8_Witness ==
    /\ pc[1] = "done" /\ Failed(1) /\ AnsweredWith(1, 500)
    /\ pc[2] = "done" /\ Succeeded(2) /\ AnsweredWith(2, 200)
    /\ PosOf(2, "res") < PosOf(1, "settle")

\* C9 as stated: every error response, 400 or 500, is preceded by a log
\* entry for that request's error.
C9_EveryErrorLoggedFirst ==
    \A k \in 1..Len(io) :
        (io[k].ev = "res" /\ io[k].data.status >= 400) =>
            \E j \in 1..(k - 1) : io[j].ev = "log" /\ io[j].id = io[k].id

\* C9 as amended: every failure of a remote call (HTTP 500) is logged before
\* its response is sent; a validation rejection (HTTP 400) is answered
\* without any log entry.
C9_RemoteErrorsLoggedFirst ==
    \A k \in 1..Len(io) :
        io[k].ev = "res" =>
            /\ io[k].data.status = 500 =>
                  \E j \in 1..(k - 1) :
                      /\ io[j].ev = "log" /\ io[j].id = io[k].id
                      /\ io[j].data = Settled(io[k].id)
            /\ io[k].data.status = 400 => LogsOf(io[k].id) = <<>>

C9_Witness ==
    /\ AnsweredWith(1, 400) /\ LogsOf(1) = <<>>
    /\ AnsweredWith(2, 500) /\ Len(LogsOf(2)) = 1
    /\ PosOf(2, "log") < PosOf(2, "res")

\* what a request was given: its path, its body, and the outcome of its own
\* remote call if it made one
SameInputs(i, j) ==
    /\ req[i] = req[j]
    /\ Len(SettlesOf(i)) = Len(SettlesOf(j))
    /\ Len(SettlesOf(i)) = 1 => SettlesOf(i)[1].data = SettlesOf(j)[1].data

\* C10: under any interleaving of the requests in flight, the response to a
\* request depends only on its own endpoint, its own imageUrl and the outcome
\* of its own remote call; whatever other requests did (400 or 500 included),
\* every request that has run to its end has its one response.
C10_RequestsIsolated ==
    /\ \A id \in Ids :
          pc[id] = "done" =>
              /\ Len(ResponsesOf(id)) = 1
              /\ ResponsesOf(id)[1].data.status =
                    (IF IsMissing(id) \/ IsMalformed(id) THEN 400
                     ELSE IF Succeeded(id) THEN 200 ELSE 500)
    /\ \A i, j \in Ids :
          (pc[i] = "done" /\ pc[j] = "done" /\ SameInputs(i, j)) =>
              ResponsesOf(i)[1].data = ResponsesOf(j)[1].data

C10_Witness ==
    /\ pc[1] = "done" /\ pc[2] = "done"
    /\ SameInputs(1, 2)
    /\ Failed(1) /\ Failed(2)
    /\ PosOf(1, "call") < PosOf(2, "call")
    /\ PosOf(2, "settle") < PosOf(1, "settle")
    /\ AnsweredWith(1, 500) /\ AnsweredWith(2, 500)

====
